---- MODULE Spec2Model ----
(***************************************************************************)
(* Sequential display-id allocation of the expense tracker.                *)
(*                                                                         *)
(* The store (Firestore) holds the collection `expenses` and the document  *)
(* counters/expenses.  Every browser session runs the page component       *)
(* (page.tsx), the form (expense-form.tsx) and the dashboard               *)
(* (dashboard.tsx).  A runTransaction call is an optimistic transaction:   *)
(* it reads the counter, buffers its writes and commits them atomically    *)
(* if the counter document was not written since it was read; otherwise    *)
(* the update function is run again, up to MaxAttempts times.              *)
(***************************************************************************)
EXTENDS Integers, Sequences, FiniteSets, TLC

\* ---------------------------------------------------------------- bounds
NumSessions == 2      \* browser sessions sharing the store
MaxCreates  == 1      \* create calls the first session starts
MaxDeletes  == 1      \* delete calls the first session starts
MaxUpdates  == 1      \* update calls the first session starts
PeerCreates == 1      \* create calls each other session starts
PeerDeletes == 1      \* delete calls each other session starts
PeerUpdates == 0      \* update calls each other session starts
StaleCreates == 3     \* SpecStale: create calls the first session starts
StaleDeletes == 1     \* SpecStale: delete calls each session starts
CreateRuns  == 2      \* SpecCreate: create calls each session starts
MaxTx       == 2      \* store calls in flight at the same time
MaxAttempts == 2      \* attempts of one runTransaction before it rejects
FormCreates == 1      \* SpecForm: create calls the first session starts
FormUpdates == 1      \* SpecForm: update calls the first session starts
ErrorCreates == 1     \* SpecError: create calls each session starts
MaxDashDocs == 3      \* SpecDash: documents in the store
HighlightCreates == 2 \* SpecHighlight: create calls the first session starts
HighlightUpdates == 2 \* SpecHighlight: update calls the first session starts
SharedCreates == 1    \* SpecShared: create calls the first session starts
SharedUpdates == 1    \* SpecShared: update calls each session starts
MaxMmkDocs == 3       \* SpecMmk: documents in the store
LiveCreates == 0      \* SpecLive: create calls the first session starts
LivePeerCreates == 3  \* SpecLive: create calls each other session starts
LiveDeletes == 1      \* SpecLive: delete calls the first session starts
LiveUpdates == 1      \* SpecLive: update calls the first session starts
MaxUploads == 4       \* SpecUpload: files the first session selects
MaxSelection == 2     \* files of one selection of the file input

Sessions == 1..NumSessions
TxIds    == 1..MaxTx

\* ------------------------------------------------------------- constants
Undefined == -1       \* JS `undefined` of a numeric form field
NoId      == 0        \* null document id (no record)
Null      == [id |-> NoId]
NoError   == "none"   \* error === null
LoadError == "Failed to load data. Please check your Firestore security rules."

IsNull(r) == r.id = NoId

\* form fields of the model: the record's id fields, the categorical fields
\* the schema requires and the monetary fields
Fields == {"displayId", "date", "groupName", "bankType",
           "collectedAmount", "rmServiceFee", "rmTotalAmount", "buyingRate",
           "totalMmkTransferAmount", "mmkServiceFee", "mmkTotalAmount"}
StringFields == {"groupName", "bankType"}
\* fields the user edits; the derived ones are disabled inputs
InputFields == {"groupName", "bankType", "collectedAmount", "rmServiceFee",
                "buyingRate", "mmkServiceFee"}

Amounts == {10}
FormDate == 1234      \* a Date, in milliseconds
FeeChoices == {Undefined, 5}

defaultFormValues ==
  [k \in Fields |-> CASE k = "displayId" -> 0
                      [] k = "date" -> FormDate
                      [] k \in StringFields -> ""
                      [] k \in {"rmTotalAmount", "totalMmkTransferAmount", "mmkTotalAmount"} -> 0
                      [] OTHER -> Undefined]

\* the form of a new record with the required inputs filled in
CreatePayloads ==
  { [defaultFormValues EXCEPT !["groupName"] = "GP1", !["bankType"] = "KPay",
                              !["collectedAmount"] = a, !["buyingRate"] = 3] : a \in Amounts }

\* defaultValues of the edit form: {...expenseToEdit, date: new Date(date)};
\* a field the record lacks is undefined (keys outside the schema, `id`,
\* are dropped when the values are parsed)
EditDefaults(rec) ==
  [k \in Fields |-> IF k \in DOMAIN rec THEN rec[k]
                    ELSE IF k \in StringFields THEN "" ELSE Undefined]

\* the edit form after the user set the MMK service fee
\* (parseFloat(value) || undefined)
EditPayloads(rec) ==
  { [EditDefaults(rec) EXCEPT !["mmkServiceFee"] = f] : f \in FeeChoices }

removeUndefinedProps(obj) ==
  [k \in {key \in DOMAIN obj : key \in StringFields \/ obj[key] # Undefined} |-> obj[k]]

\* Date -> Firestore Timestamp (seconds, nanoseconds) and back (toDate)
ToTimestamp(ms) == [seconds |-> ms \div 1000, nanoseconds |-> (ms % 1000) * 1000000]
\* a conversion that drops the milliseconds
toDateSeconds(ts) == ts.seconds * 1000
toDate(ts) == ts.seconds * 1000 + ts.nanoseconds \div 1000000

\* the document data the SDK writes for a JS object
Serialize(obj) ==
  [k \in DOMAIN obj |-> IF k = "date" THEN ToTimestamp(obj[k]) ELSE obj[k]]

\* {...a, ...b}
Spread(a, b) ==
  [k \in DOMAIN a \cup DOMAIN b |-> IF k \in DOMAIN b THEN b[k] ELSE a[k]]

\* ------------------------------------------- form values (expense-form)
\* x || 0 of a numeric form value
OrZero(v) == IF v = Undefined THEN 0 ELSE v

\* values the inputs can produce: the selects offer only non-empty items,
\* the numeric inputs yield parseFloat(value) || undefined
InputChoices(k) ==
  CASE k = "groupName" -> {"GP1"}
    [] k = "bankType" -> {"KPay"}
    [] k = "collectedAmount" -> {Undefined, 10, 0 - 5}
    [] k = "buyingRate" -> {Undefined, 3}
    [] k = "rmServiceFee" -> {Undefined, 2}
    [] k = "mmkServiceFee" -> FeeChoices

\* dependency lists of the three effects
DepsTotalMmk == {"collectedAmount", "buyingRate"}
DepsMmkTotal == {"totalMmkTransferAmount", "mmkServiceFee"}
DepsRmTotal  == {"collectedAmount", "rmServiceFee"}

\* one render: every effect in `run` computes from the rendered values f
\* and calls setValue
ApplyEffects(f, run) ==
  [f EXCEPT
     !["totalMmkTransferAmount"] =
        IF "totalMmk" \in run
        THEN OrZero(f["collectedAmount"]) * OrZero(f["buyingRate"]) ELSE @,
     !["mmkTotalAmount"] =
        IF "mmkTotal" \in run
        THEN OrZero(f["totalMmkTransferAmount"]) + OrZero(f["mmkServiceFee"]) ELSE @,
     !["rmTotalAmount"] =
        IF "rmTotal" \in run
        THEN OrZero(f["collectedAmount"]) + OrZero(f["rmServiceFee"]) ELSE @]

\* the effects whose dependencies changed since the previous render
Triggered(seen, f) ==
  {e \in {"totalMmk", "mmkTotal", "rmTotal"} :
     \E k \in (CASE e = "totalMmk" -> DepsTotalMmk
                  [] e = "mmkTotal" -> DepsMmkTotal
                  [] e = "rmTotal" -> DepsRmTotal) : seen[k] # f[k]}

\* renders until no effect changes a value
RECURSIVE RunEffects(_, _)
RunEffects(seen, f) ==
  LET g == ApplyEffects(f, Triggered(seen, f))
  IN  IF g = f THEN f ELSE RunEffects(f, g)

\* mounting the form with the given default values: every effect runs once
MountForm(defaults) ==
  RunEffects(defaults, ApplyEffects(defaults, {"totalMmk", "mmkTotal", "rmTotal"}))

\* the values the form is mounted with for the given expenseToEdit
FormFor(rec) ==
  MountForm(IF rec.id = NoId THEN defaultFormValues ELSE EditDefaults(rec))

\* {...form, ...changes}
SetValues(f, changes) ==
  [k \in DOMAIN f |-> IF k \in DOMAIN changes THEN changes[k] ELSE f[k]]

\* the input fields of a form
InputsOf(f) == [k \in InputFields |-> f[k]]

\* expenseSchema: form.trigger() / the resolver of form.handleSubmit
IsValid(f) ==
  /\ f["groupName"] # ""
  /\ f["bankType"] # ""
  /\ f["collectedAmount"] # Undefined /\ f["collectedAmount"] >= 0
  /\ f["buyingRate"] # Undefined /\ f["buyingRate"] >= 0
  /\ f["totalMmkTransferAmount"] >= 0

VARIABLES
  counter,              \* counters/expenses: [exists, lastId, ver]
  expenses,             \* collection expenses: document id -> data
  nextDoc,              \* next auto-generated document id
  txs,                  \* store calls in flight
  quota,                \* per session: store calls it may still start, per kind
  records,              \* per session: cached snapshot (page.tsx)
  expenseToEdit,
  activeTab,
  loading,
  highlightedRecordId,
  isReviewing,          \* expense-form.tsx
  isSubmitting,
  recordToDelete,       \* dashboard.tsx
  toast,                \* last notification shown
  error,                \* page.tsx: message of the subscription error
  form,                 \* expense-form.tsx: values held by useForm
  showErrorAlert,       \* expense-form.tsx: validation alert is open
  uploadedFiles,        \* expense-form.tsx: the form's list of images
  encoding              \* expense-form.tsx: file selections being encoded

vars == <<counter, expenses, nextDoc, txs, quota, records, expenseToEdit,
          activeTab, loading, highlightedRecordId, isReviewing, isSubmitting,
          recordToDelete, toast, error, form, showErrorAlert,
          uploadedFiles, encoding>>

storeVars == <<counter, expenses, nextDoc>>
pageVars  == <<records, expenseToEdit, activeTab, loading, highlightedRecordId, error>>
uploadVars == <<uploadedFiles, encoding>>
formVars  == <<isReviewing, isSubmitting, form, showErrorAlert, uploadedFiles, encoding>>

\* the form component is mounted anew (useForm with its defaultValues):
\* its list of images is empty and selections still being encoded belong
\* to the instance that was unmounted
RemountUploads(s) ==
  /\ uploadedFiles' = [uploadedFiles EXCEPT ![s] = << >>]
  /\ encoding' = [encoding EXCEPT ![s] = {}]

NoCounter == [exists |-> FALSE, lastId |-> 0, ver |-> 0]
EmptyObj  == [k \in {} |-> 0]
IdleTx    == [kind |-> "idle", owner |-> 0, pc |-> "idle", target |-> Null,
              data |-> EmptyObj, read |-> NoCounter, attempts |-> 0]

\* ------------------------------------------------------------- snapshot
\* an ordering by descending displayId
BeforeDesc(exp, i, j) ==
  \/ exp[i]["displayId"] > exp[j]["displayId"]
  \/ exp[i]["displayId"] = exp[j]["displayId"] /\ i <= j

\* query(expensesRef, orderBy('displayId', 'asc')): documents that have the
\* field, ascending by displayId (ties by document id)
Before(exp, i, j) ==
  \/ exp[i]["displayId"] < exp[j]["displayId"]
  \/ exp[i]["displayId"] = exp[j]["displayId"] /\ i <= j

\* { id: doc.id, ...data, date: data.date.toDate() }
ClientRecord(id, data) ==
  [k \in DOMAIN data \cup {"id", "date"} |->
     IF k = "date" THEN toDate(data["date"])
     ELSE IF k \in DOMAIN data THEN data[k] ELSE id]

RECURSIVE SortedDocs(_, _)
SortedDocs(exp, ids) ==
  IF ids = {} THEN << >>
  ELSE LET m == CHOOSE i \in ids : \A j \in ids : Before(exp, i, j)
       IN  <<ClientRecord(m, exp[m])>> \o SortedDocs(exp, ids \ {m})

Snapshot(exp) ==
  SortedDocs(exp, {i \in DOMAIN exp : "displayId" \in DOMAIN exp[i]})

Range(seq) == {seq[i] : i \in DOMAIN seq}

\* --------------------------------------------------------------- initial
QuotaOf(c, d, u) == [create |-> c, delete |-> d, update |-> u, upload |-> 0]

\* a page that has just been mounted, for every session
InitSessions ==
  /\ txs = [t \in TxIds |-> IdleTx]
  /\ records = [s \in Sessions |-> << >>]
  /\ expenseToEdit = [s \in Sessions |-> Null]
  /\ activeTab = [s \in Sessions |-> "form"]
  /\ loading = [s \in Sessions |-> TRUE]
  /\ highlightedRecordId = [s \in Sessions |-> NoId]
  /\ isReviewing = [s \in Sessions |-> FALSE]
  /\ isSubmitting = [s \in Sessions |-> FALSE]
  /\ recordToDelete = [s \in Sessions |-> Null]
  /\ toast = [s \in Sessions |-> "none"]
  /\ error = [s \in Sessions |-> NoError]
  /\ form = [s \in Sessions |-> MountForm(defaultFormValues)]
  /\ showErrorAlert = [s \in Sessions |-> FALSE]
  /\ uploadedFiles = [s \in Sessions |-> << >>]
  /\ encoding = [s \in Sessions |-> {}]

\* an empty store: no counter document, no expense
EmptyStore ==
  /\ counter = NoCounter
  /\ expenses = EmptyObj
  /\ nextDoc = 1

Init ==
  /\ EmptyStore
  /\ InitSessions
  /\ quota = [s \in Sessions |->
                IF s = 1 THEN QuotaOf(MaxCreates, MaxDeletes, MaxUpdates)
                ELSE QuotaOf(PeerCreates, PeerDeletes, PeerUpdates)]

\* the first session creates and deletes, the others delete
InitStale ==
  /\ EmptyStore
  /\ InitSessions
  /\ quota = [s \in Sessions |->
                IF s = 1 THEN QuotaOf(StaleCreates, StaleDeletes, 0)
                ELSE QuotaOf(0, StaleDeletes, 0)]

\* every session creates
InitCreate ==
  /\ EmptyStore
  /\ InitSessions
  /\ quota = [s \in Sessions |-> QuotaOf(CreateRuns, 0, 0)]

\* a store that holds an expense (displayId 1) but no counter document
InitNoCounter ==
  /\ counter = NoCounter
  /\ expenses = [i \in {1} |->
                   Serialize(Spread(removeUndefinedProps(CHOOSE p \in CreatePayloads : TRUE),
                                    [displayId |-> 1]))]
  /\ nextDoc = 2
  /\ InitSessions
  /\ quota = [s \in Sessions |-> QuotaOf(PeerCreates, PeerDeletes, 0)]

\* the first session creates a record and updates it, the others look on
InitForm ==
  /\ EmptyStore
  /\ InitSessions
  /\ quota = [s \in Sessions |->
                IF s = 1 THEN QuotaOf(FormCreates, 0, FormUpdates) ELSE QuotaOf(0, 0, 0)]

\* every session creates; subscription errors occur
InitError ==
  /\ EmptyStore
  /\ InitSessions
  /\ quota = [s \in Sessions |-> QuotaOf(ErrorCreates, 0, 0)]

\* the first session saves several times in a row, the others look on
InitHighlight ==
  /\ EmptyStore
  /\ InitSessions
  /\ quota = [s \in Sessions |->
                IF s = 1 THEN QuotaOf(HighlightCreates, 0, HighlightUpdates)
                ELSE QuotaOf(0, 0, 0)]

\* the first session creates a record, every session updates it once
InitShared ==
  /\ EmptyStore
  /\ InitSessions
  /\ quota = [s \in Sessions |->
                IF s = 1 THEN QuotaOf(SharedCreates, 0, SharedUpdates)
                ELSE QuotaOf(0, 0, SharedUpdates)]

\* the first session creates, updates and deletes while the others create
InitLive ==
  /\ EmptyStore
  /\ InitSessions
  /\ quota = [s \in Sessions |->
                IF s = 1 THEN QuotaOf(LiveCreates, LiveDeletes, LiveUpdates)
                ELSE QuotaOf(LivePeerCreates, 0, 0)]

\* the first session selects images for a new record
InitUpload ==
  /\ EmptyStore
  /\ InitSessions
  /\ quota = [s \in Sessions |->
                IF s = 1 THEN [QuotaOf(1, 0, 0) EXCEPT !.upload = MaxUploads]
                ELSE QuotaOf(0, 0, 0)]

\* documents found in the store by the dashboard: key fields absent, empty
\* or set, amounts absent or set
Absent == "<absent>"
BankChoices == {Absent, "", "A", "B"}
GroupOf(b) == CASE b = Absent -> "G" [] b = "" -> Absent [] b = "A" -> "" [] OTHER -> "G"
AmountChoices == {Undefined, 3, 10}

DashDoc(b, a) ==
  LET keys == {"date"}
              \cup (IF b # Absent THEN {"bankType"} ELSE {})
              \cup (IF GroupOf(b) # Absent THEN {"groupName"} ELSE {})
              \cup (IF a # Undefined THEN {"collectedAmount", "totalMmkTransferAmount"} ELSE {})
  IN  [k \in keys |-> CASE k = "date" -> ToTimestamp(FormDate)
                        [] k = "bankType" -> b
                        [] k = "groupName" -> GroupOf(b)
                        [] k = "collectedAmount" -> a
                        [] k = "totalMmkTransferAmount" -> a * 3]

\* documents of the schema with a category and a free-text override
CategoryChoices == {"Food", "Other"}
OverrideChoices == {Absent, "", "Software"}
LegacyDoc(c, o) ==
  LET keys == {"date", "category", "collectedAmount"}
              \cup (IF o # Absent THEN {"otherCategory"} ELSE {})
  IN  [k \in keys |-> CASE k = "date" -> ToTimestamp(FormDate)
                        [] k = "category" -> c
                        [] k = "otherCategory" -> o
                        [] k = "collectedAmount" -> 10]

DashDocs ==
  {DashDoc(b, a) : b \in BankChoices, a \in AmountChoices}
  \cup {LegacyDoc(c, o) : c \in CategoryChoices, o \in OverrideChoices}

\* the stores of 0..MaxDashDocs documents numbered 1..n by the allocator
DashStores ==
  UNION {[1..n -> DashDocs] : n \in 0..MaxDashDocs}

InitDash ==
  /\ \E docs \in DashStores :
       /\ expenses = [i \in DOMAIN docs |-> Spread(docs[i], [displayId |-> i])]
       /\ counter = IF DOMAIN docs = {} THEN NoCounter
                    ELSE [exists |-> TRUE, lastId |-> Cardinality(DOMAIN docs), ver |-> 0]
       /\ nextDoc = Cardinality(DOMAIN docs) + 1
  /\ InitSessions
  /\ quota = [s \in Sessions |-> QuotaOf(0, 0, 0)]

\* documents with the two MMK amounts absent, 0 or set
MmkTotalChoices == {Undefined, 0, 40}
TransferChoices == {Undefined, 0, 30}
MmkDoc(m, a) ==
  LET keys == {"date", "collectedAmount"}
              \cup (IF m # Undefined THEN {"mmkTotalAmount"} ELSE {})
              \cup (IF a # Undefined THEN {"totalMmkTransferAmount"} ELSE {})
  IN  [k \in keys |-> CASE k = "date" -> ToTimestamp(FormDate)
                        [] k = "collectedAmount" -> 10
                        [] k = "mmkTotalAmount" -> m
                        [] k = "totalMmkTransferAmount" -> a]

MmkDocs == {MmkDoc(m, a) : m \in MmkTotalChoices, a \in TransferChoices}

MmkStores ==
  UNION {[1..n -> MmkDocs] : n \in 0..MaxMmkDocs}

InitMmk ==
  /\ \E docs \in MmkStores :
       /\ expenses = [i \in DOMAIN docs |-> Spread(docs[i], [displayId |-> i])]
       /\ counter = IF DOMAIN docs = {} THEN NoCounter
                    ELSE [exists |-> TRUE, lastId |-> Cardinality(DOMAIN docs), ver |-> 0]
       /\ nextDoc = Cardinality(DOMAIN docs) + 1
  /\ InitSessions
  /\ quota = [s \in Sessions |-> QuotaOf(0, 0, 0)]

\* ------------------------------------------------------------ page.tsx
\* what the page shows: skeleton while loading, the error message when the
\* subscription failed, otherwise the tabs
ShowsError(s)  == ~loading[s] /\ error[s] # NoError
UiReady(s)     == ~loading[s] /\ error[s] = NoError
FormVisible(s) == UiReady(s) /\ activeTab[s] = "form"
DashVisible(s) == UiReady(s) /\ activeTab[s] = "dashboard"
\* the review dialog, the validation alert and the delete dialog are modal
NoDialog(s)    == ~isReviewing[s] /\ ~showErrorAlert[s] /\ IsNull(recordToDelete[s])

\* onSnapshot success callback
OnSnapshot(s) ==
  /\ loading[s] \/ error[s] # NoError \/ records[s] # Snapshot(expenses)
  /\ records' = [records EXCEPT ![s] = Snapshot(expenses)]
  /\ loading' = [loading EXCEPT ![s] = FALSE]
  /\ error' = [error EXCEPT ![s] = NoError]
  /\ UNCHANGED <<storeVars, txs, quota, expenseToEdit, activeTab, highlightedRecordId,
                 formVars, recordToDelete, toast>>

\* an error callback that leaves the skeleton in place
OnSnapshotErrorKeepsLoading(s) ==
  /\ error[s] = NoError
  /\ error' = [error EXCEPT ![s] = LoadError]
  /\ isReviewing' = [isReviewing EXCEPT ![s] = FALSE]
  /\ isSubmitting' = [isSubmitting EXCEPT ![s] = FALSE]
  /\ showErrorAlert' = [showErrorAlert EXCEPT ![s] = FALSE]
  /\ recordToDelete' = [recordToDelete EXCEPT ![s] = Null]
  /\ form' = [form EXCEPT ![s] = FormFor(expenseToEdit[s])]
  /\ RemountUploads(s)
  /\ UNCHANGED <<storeVars, txs, quota, records, expenseToEdit, activeTab, loading,
                 highlightedRecordId, toast>>

\* onSnapshot error callback; the tabs are no longer rendered, so the form
\* and the dashboard are unmounted and lose their component state
OnSnapshotError(s) ==
  /\ error[s] = NoError
  /\ error' = [error EXCEPT ![s] = LoadError]
  /\ loading' = [loading EXCEPT ![s] = FALSE]
  /\ isReviewing' = [isReviewing EXCEPT ![s] = FALSE]
  /\ isSubmitting' = [isSubmitting EXCEPT ![s] = FALSE]
  /\ showErrorAlert' = [showErrorAlert EXCEPT ![s] = FALSE]
  /\ recordToDelete' = [recordToDelete EXCEPT ![s] = Null]
  /\ form' = [form EXCEPT ![s] = FormFor(expenseToEdit[s])]
  /\ RemountUploads(s)
  /\ UNCHANGED <<storeVars, txs, quota, records, expenseToEdit, activeTab,
                 highlightedRecordId, toast>>

\* <Tabs onValueChange={setActiveTab}>; the form is mounted anew when its
\* tab is shown again
SetActiveTab(s, tab) ==
  /\ UiReady(s) /\ NoDialog(s)
  /\ activeTab[s] # tab
  /\ activeTab' = [activeTab EXCEPT ![s] = tab]
  /\ form' = [form EXCEPT ![s] = FormFor(expenseToEdit[s])]
  /\ RemountUploads(s)
  /\ UNCHANGED <<storeVars, txs, quota, records, expenseToEdit, loading, error,
                 highlightedRecordId, isReviewing, isSubmitting, showErrorAlert,
                 recordToDelete, toast>>

\* an edit that leaves the highlight as it is
handleEditKeepsHighlight(s, record) ==
  /\ DashVisible(s) /\ NoDialog(s)
  /\ quota[s].update > 0
  /\ record \in Range(records[s])
  /\ expenseToEdit' = [expenseToEdit EXCEPT ![s] = record]
  /\ activeTab' = [activeTab EXCEPT ![s] = "form"]
  /\ form' = [form EXCEPT ![s] = FormFor(record)]
  /\ RemountUploads(s)
  /\ UNCHANGED <<storeVars, txs, quota, records, loading, error, isReviewing,
                 isSubmitting, showErrorAlert, recordToDelete, toast,
                 highlightedRecordId>>

handleEdit(s, record) ==
  /\ DashVisible(s) /\ NoDialog(s)
  /\ quota[s].update > 0
  /\ record \in Range(records[s])
  /\ expenseToEdit' = [expenseToEdit EXCEPT ![s] = record]
  /\ highlightedRecordId' = [highlightedRecordId EXCEPT ![s] = NoId]
  /\ activeTab' = [activeTab EXCEPT ![s] = "form"]
  /\ form' = [form EXCEPT ![s] = FormFor(record)]
  /\ RemountUploads(s)
  /\ UNCHANGED <<storeVars, txs, quota, records, loading, error, isReviewing,
                 isSubmitting, showErrorAlert, recordToDelete, toast>>

\* handleSaveSuccess(updatedRecord), called with no record after a creation
HighlightOf(updatedRecord) ==
  IF /\ ~IsNull(updatedRecord)
     /\ (IF "mmkServiceFee" \in DOMAIN updatedRecord
         THEN updatedRecord["mmkServiceFee"] ELSE 0) > 0
  THEN updatedRecord.id ELSE NoId

handleSaveSuccess(s, updatedRecord) ==
  /\ highlightedRecordId' = [highlightedRecordId EXCEPT ![s] = HighlightOf(updatedRecord)]
  /\ expenseToEdit' = [expenseToEdit EXCEPT ![s] = Null]
  /\ activeTab' = [activeTab EXCEPT ![s] = "dashboard"]

\* ----------------------------------------------------- expense-form.tsx
IsFree(t) == txs[t].kind = "idle"
FreeTx    == CHOOSE t \in TxIds : IsFree(t) /\ \A u \in TxIds : IsFree(u) => t <= u
InFlight(kind) == {t \in TxIds : txs[t].kind = kind}

\* the session may still start the store call its form is for
MaySave(s) ==
  IF IsNull(expenseToEdit[s]) THEN quota[s].create > 0 ELSE quota[s].update > 0

\* field.onChange of the inputs named in `changes`, followed by the effects;
\* the MMK service fee input exists only in edit mode
onChange(s, changes) ==
  /\ FormVisible(s) /\ NoDialog(s) /\ ~isSubmitting[s]
  /\ MaySave(s)
  /\ DOMAIN changes \subseteq InputFields
  /\ \A k \in DOMAIN changes :
       (k = "mmkServiceFee" /\ IsNull(expenseToEdit[s])) => changes[k] = form[s][k]
  /\ SetValues(form[s], changes) # form[s]
  /\ form' = [form EXCEPT ![s] = RunEffects(form[s], SetValues(form[s], changes))]
  /\ UNCHANGED <<storeVars, txs, quota, pageVars, isReviewing, isSubmitting, uploadVars,
                 showErrorAlert, recordToDelete, toast>>

\* Clear button: reset(defaultFormValues)
handleClearForm(s) ==
  /\ FormVisible(s) /\ NoDialog(s) /\ ~isSubmitting[s]
  /\ MaySave(s)
  /\ form[s] # RunEffects(form[s], defaultFormValues) \/ uploadedFiles[s] # << >>
  /\ form' = [form EXCEPT ![s] = RunEffects(form[s], defaultFormValues)]
  /\ uploadedFiles' = [uploadedFiles EXCEPT ![s] = << >>]
  /\ UNCHANGED <<storeVars, txs, quota, pageVars, isReviewing, isSubmitting,
                 showErrorAlert, recordToDelete, toast, encoding>>

\* the files of one selection of the file input, in the order of the
\* FileList: the session's files are numbered as they are selected
Selection(s, n) == [i \in 1..n |-> quota[s].upload - i + 1]

\* onChange of the file input up to its await: fileToBase64 of every
\* selected file has started
selectFiles(s, n) ==
  /\ FormVisible(s) /\ NoDialog(s) /\ ~isSubmitting[s]
  /\ n \in 1..MaxSelection /\ n <= quota[s].upload
  /\ encoding' = [encoding EXCEPT ![s] =
                    @ \cup {[files |-> Selection(s, n), seen |-> uploadedFiles[s]]}]
  /\ quota' = [quota EXCEPT ![s].upload = @ - n]
  /\ UNCHANGED <<storeVars, txs, pageVars, isReviewing, isSubmitting, form,
                 showErrorAlert, uploadedFiles, recordToDelete, toast>>

\* the list is written from the value read when the files were selected
filesEncodedFromSeen(s, sel) ==
  /\ sel \in encoding[s]
  /\ uploadedFiles' = [uploadedFiles EXCEPT ![s] = sel.seen \o sel.files]
  /\ encoding' = [encoding EXCEPT ![s] = @ \ {sel}]
  /\ UNCHANGED <<storeVars, txs, quota, pageVars, isReviewing, isSubmitting, form,
                 showErrorAlert, recordToDelete, toast>>

\* the rest of onChange after Promise.all resolved:
\* setValue('uploadedFiles', [...getValues('uploadedFiles'), ...fileInfo])
filesEncoded(s, sel) ==
  /\ sel \in encoding[s]
  /\ uploadedFiles' = [uploadedFiles EXCEPT ![s] = @ \o sel.files]
  /\ encoding' = [encoding EXCEPT ![s] = @ \ {sel}]
  /\ UNCHANGED <<storeVars, txs, quota, pageVars, isReviewing, isSubmitting, form,
                 showErrorAlert, recordToDelete, toast>>

\* currentFiles.filter((_, i) => i !== index); the model counts from 1
RemoveAt(files, index) ==
  [i \in 1..(Len(files) - 1) |-> IF i < index THEN files[i] ELSE files[i + 1]]

\* the X button of an image
handleRemoveImage(s, index) ==
  /\ FormVisible(s) /\ NoDialog(s) /\ ~isSubmitting[s]
  /\ index \in DOMAIN uploadedFiles[s]
  /\ uploadedFiles' = [uploadedFiles EXCEPT ![s] = RemoveAt(@, index)]
  /\ UNCHANGED <<storeVars, txs, quota, pageVars, isReviewing, isSubmitting, form,
                 showErrorAlert, encoding, recordToDelete, toast>>

\* a review that opens whatever the form holds
handleReviewSubmitNoTrigger(s) ==
  /\ FormVisible(s) /\ NoDialog(s) /\ ~isSubmitting[s]
  /\ MaySave(s)
  /\ isReviewing' = [isReviewing EXCEPT ![s] = TRUE]
  /\ UNCHANGED <<storeVars, txs, quota, pageVars, isSubmitting, form, uploadVars, showErrorAlert,
                 recordToDelete, toast>>

\* handleReviewSubmit: form.trigger(), then the review dialog or the alert
handleReviewSubmit(s) ==
  /\ FormVisible(s) /\ NoDialog(s) /\ ~isSubmitting[s]
  /\ MaySave(s)
  /\ IF IsValid(form[s])
     THEN /\ isReviewing' = [isReviewing EXCEPT ![s] = TRUE]
          /\ UNCHANGED showErrorAlert
     ELSE /\ showErrorAlert' = [showErrorAlert EXCEPT ![s] = TRUE]
          /\ UNCHANGED isReviewing
  /\ UNCHANGED <<storeVars, txs, quota, pageVars, isSubmitting, form, uploadVars,
                 recordToDelete, toast>>

\* OK button or closing of the validation alert
onShowErrorAlertChange(s) ==
  /\ FormVisible(s) /\ showErrorAlert[s]
  /\ showErrorAlert' = [showErrorAlert EXCEPT ![s] = FALSE]
  /\ UNCHANGED <<storeVars, txs, quota, pageVars, isReviewing, isSubmitting, form, uploadVars,
                 recordToDelete, toast>>

handleCancelReview(s) ==
  /\ FormVisible(s) /\ isReviewing[s] /\ ~isSubmitting[s]
  /\ isReviewing' = [isReviewing EXCEPT ![s] = FALSE]
  /\ UNCHANGED <<storeVars, txs, quota, pageVars, isSubmitting, form, uploadVars, showErrorAlert,
                 recordToDelete, toast>>

\* form.handleSubmit(onSubmit) up to the first await of onSubmit(data): the
\* values are validated, then the create transaction is started
SubmitCreate(s, data) ==
  /\ FormVisible(s) /\ isReviewing[s] /\ ~isSubmitting[s]
  /\ IsNull(expenseToEdit[s])
  /\ data = form[s] /\ IsValid(data)
  /\ \E t \in TxIds : IsFree(t)
  /\ quota[s].create > 0
  /\ quota' = [quota EXCEPT ![s].create = @ - 1]
  /\ isSubmitting' = [isSubmitting EXCEPT ![s] = TRUE]
  /\ txs' = [txs EXCEPT ![FreeTx] =
               [kind |-> "create", owner |-> s, pc |-> "read", target |-> Null,
                data |-> removeUndefinedProps(data), read |-> NoCounter, attempts |-> 0]]
  /\ UNCHANGED <<storeVars, pageVars, isReviewing, form, uploadVars, showErrorAlert,
                 recordToDelete, toast>>

\* form.handleSubmit(onSubmit) up to the first await: updateDoc is called
SubmitUpdate(s, data) ==
  /\ FormVisible(s) /\ isReviewing[s] /\ ~isSubmitting[s]
  /\ ~IsNull(expenseToEdit[s])
  /\ data = form[s] /\ IsValid(data)
  /\ \E t \in TxIds : IsFree(t)
  /\ quota[s].update > 0
  /\ quota' = [quota EXCEPT ![s].update = @ - 1]
  /\ isSubmitting' = [isSubmitting EXCEPT ![s] = TRUE]
  /\ txs' = [txs EXCEPT ![FreeTx] =
               [kind |-> "update", owner |-> s, pc |-> "write", target |-> expenseToEdit[s],
                data |-> removeUndefinedProps(data), read |-> NoCounter, attempts |-> 0]]
  /\ UNCHANGED <<storeVars, pageVars, isReviewing, form, uploadVars, showErrorAlert,
                 recordToDelete, toast>>

\* a catch block without the finally block
SaveFailedNoFinally(s) ==
  /\ toast' = [toast EXCEPT ![s] = "Save Failed"]
  /\ UNCHANGED <<pageVars, formVars, recordToDelete>>

\* a successful save that leaves the form as it is
SaveSucceededKeepsForm(s, updatedRecord) ==
  /\ toast' = [toast EXCEPT ![s] = "Record Saved!"]
  /\ handleSaveSuccess(s, updatedRecord)
  /\ isSubmitting' = [isSubmitting EXCEPT ![s] = FALSE]
  /\ isReviewing' = [isReviewing EXCEPT ![s] = FALSE]
  /\ UNCHANGED <<records, loading, error, showErrorAlert, recordToDelete, form, uploadVars>>

\* the rest of onSubmit after the store call resolved: the form is reset
\* and, the form tab being left, mounted anew
SaveSucceeded(s, updatedRecord) ==
  /\ toast' = [toast EXCEPT ![s] = "Record Saved!"]
  /\ handleSaveSuccess(s, updatedRecord)
  /\ form' = [form EXCEPT ![s] = FormFor(Null)]
  /\ RemountUploads(s)
  /\ isSubmitting' = [isSubmitting EXCEPT ![s] = FALSE]
  /\ isReviewing' = [isReviewing EXCEPT ![s] = FALSE]
  /\ UNCHANGED <<records, loading, error, showErrorAlert, recordToDelete>>

\* the rest of onSubmit after the store call rejected
SaveFailed(s) ==
  /\ toast' = [toast EXCEPT ![s] = "Save Failed"]
  /\ isSubmitting' = [isSubmitting EXCEPT ![s] = FALSE]
  /\ isReviewing' = [isReviewing EXCEPT ![s] = FALSE]
  /\ UNCHANGED <<pageVars, form, uploadVars, showErrorAlert, recordToDelete>>

\* transaction.get(counterRef)
CreateRead(t) ==
  /\ txs[t].kind = "create" /\ txs[t].pc = "read"
  /\ txs' = [txs EXCEPT ![t].read = counter, ![t].pc = "commit"]
  /\ UNCHANGED <<storeVars, quota, pageVars, formVars, recordToDelete, toast>>

\* let newId = 1; if (counterDoc.exists()) newId = lastId + 1
NewId(counterDoc) == IF counterDoc.exists THEN counterDoc.lastId + 1 ELSE 1

\* the record is written, the counter is not
CreateWritesNoCounter(t) ==
  LET newId == NewId(txs[t].read)
      doc   == Serialize(Spread(txs[t].data, [displayId |-> newId]))
  IN  /\ expenses' = [i \in DOMAIN expenses \cup {nextDoc} |->
                        IF i = nextDoc THEN doc ELSE expenses[i]]
      /\ counter' = counter
      /\ nextDoc' = nextDoc + 1

\* { displayId: newId, ...cleanData }: the payload's displayId wins
CreateWritesPayloadId(t) ==
  LET newId == NewId(txs[t].read)
      doc   == Serialize(Spread([displayId |-> newId], txs[t].data))
  IN  /\ expenses' = [i \in DOMAIN expenses \cup {nextDoc} |->
                        IF i = nextDoc THEN doc ELSE expenses[i]]
      /\ counter' = [exists |-> TRUE, lastId |-> newId, ver |-> counter.ver + 1]
      /\ nextDoc' = nextDoc + 1

\* the two transaction.set calls, committed atomically
CreateWrites(t) ==
  LET newId == NewId(txs[t].read)
      doc   == Serialize(Spread(txs[t].data, [displayId |-> newId]))
  IN  /\ expenses' = [i \in DOMAIN expenses \cup {nextDoc} |->
                        IF i = nextDoc THEN doc ELSE expenses[i]]
      /\ counter' = [exists |-> TRUE, lastId |-> newId, ver |-> counter.ver + 1]
      /\ nextDoc' = nextDoc + 1

\* a counter read that the commit does not verify
AlwaysUnchanged(t) == TRUE

\* the commit is accepted when the counter was not written since it was read
Unchanged(t) == txs[t].read.ver = counter.ver

CreateCommit(t) ==
  /\ txs[t].kind = "create" /\ txs[t].pc = "commit"
  /\ Unchanged(t)
  /\ CreateWrites(t)
  /\ txs' = [txs EXCEPT ![t] = IdleTx]
  /\ SaveSucceeded(txs[t].owner, Null)
  /\ UNCHANGED quota

\* the commit is refused: run the update function again or reject
CreateConflict(t) ==
  /\ txs[t].kind = "create" /\ txs[t].pc = "commit"
  /\ ~Unchanged(t)
  /\ IF txs[t].attempts + 1 < MaxAttempts
     THEN /\ txs' = [txs EXCEPT ![t].pc = "read", ![t].attempts = @ + 1]
          /\ UNCHANGED <<pageVars, formVars, recordToDelete, toast>>
     ELSE /\ txs' = [txs EXCEPT ![t] = IdleTx]
          /\ SaveFailed(txs[t].owner)
  /\ UNCHANGED <<storeVars, quota>>

\* await updateDoc(docRef, cleanData): fails when the document is gone
UpdateCommit(t) ==
  /\ txs[t].kind = "update" /\ txs[t].pc = "write"
  /\ txs' = [txs EXCEPT ![t] = IdleTx]
  /\ LET id == txs[t].target.id
     IN IF id \in DOMAIN expenses
        THEN /\ expenses' = [expenses EXCEPT ![id] = Spread(@, Serialize(txs[t].data))]
             /\ SaveSucceeded(txs[t].owner, Spread(txs[t].target, txs[t].data))
        ELSE /\ UNCHANGED expenses
             /\ SaveFailed(txs[t].owner)
  /\ UNCHANGED <<counter, nextDoc, quota>>

\* -------------------------------------------------------- dashboard.tsx
\* analytics = useMemo(..., [records])
\* a missing amount read without `|| 0`
AmountOfRaw(record) ==
  IF "collectedAmount" \in DOMAIN record THEN record["collectedAmount"] ELSE Undefined

\* record.collectedAmount || 0
AmountOf(record) ==
  IF "collectedAmount" \in DOMAIN record THEN OrZero(record["collectedAmount"]) ELSE 0

\* both amounts of a record are added
MmkOfBoth(record) ==
  (IF "mmkTotalAmount" \in DOMAIN record THEN OrZero(record["mmkTotalAmount"]) ELSE 0)
  + (IF "totalMmkTransferAmount" \in DOMAIN record
     THEN OrZero(record["totalMmkTransferAmount"]) ELSE 0)

\* record.mmkTotalAmount || record.totalMmkTransferAmount || 0
MmkOf(record) ==
  IF "mmkTotalAmount" \in DOMAIN record /\ OrZero(record["mmkTotalAmount"]) # 0
  THEN record["mmkTotalAmount"]
  ELSE IF "totalMmkTransferAmount" \in DOMAIN record
       THEN OrZero(record["totalMmkTransferAmount"]) ELSE 0

\* records.reduce((acc, record) => acc + (record.collectedAmount || 0), 0)
RECURSIVE reduceCollected(_, _, _)
reduceCollected(recs, i, acc) ==
  IF i > Len(recs) THEN acc ELSE reduceCollected(recs, i + 1, acc + AmountOf(recs[i]))

RECURSIVE reduceMmk(_, _, _)
reduceMmk(recs, i, acc) ==
  IF i > Len(recs) THEN acc ELSE reduceMmk(recs, i + 1, acc + MmkOf(recs[i]))

totalCollected(recs) == reduceCollected(recs, 1, 0)
totalMMK(recs) == reduceMmk(recs, 1, 0)

\* a key read without the fallback
KeyOfNoFallback(record, keyField) ==
  IF keyField \in DOMAIN record THEN record[keyField] ELSE "undefined"

\* record.bankType || 'N/A', record.groupName || 'N/A'
KeyOf(record, keyField) ==
  IF keyField \in DOMAIN record /\ record[keyField] # "" THEN record[keyField] ELSE "N/A"

\* the amount replaces the entry's total
GroupAddReplace(item, amount) == [item EXCEPT !.total = amount]

\* existing.total += amount
GroupAdd(item, amount) == [item EXCEPT !.total = @ + amount]

\* the reducer of expensesByCategory / expensesByGroup: acc.find, then
\* accumulate or push
RECURSIVE groupSumFrom(_, _, _, _)
groupSumFrom(acc, recs, i, keyField) ==
  IF i > Len(recs) THEN acc
  ELSE LET category == KeyOf(recs[i], keyField)
           amount   == AmountOf(recs[i])
           found    == {n \in DOMAIN acc : acc[n].name = category}
           existing == CHOOSE n \in found : \A m \in found : n <= m
       IN  groupSumFrom(IF found # {}
                        THEN [acc EXCEPT ![existing] = GroupAdd(@, amount)]
                        ELSE Append(acc, [name |-> category, total |-> amount]),
                        recs, i + 1, keyField)

\* a grouping that leaves out the records without the key
groupSumKeyedOnly(recs, keyField) ==
  groupSumFrom(<< >>, SelectSeq(recs, LAMBDA r : keyField \in DOMAIN r), 1, keyField)

groupSum(recs, keyField) == groupSumFrom(<< >>, recs, 1, keyField)

expensesByCategory(recs) == groupSum(recs, "bankType")
expensesByGroup(recs) == groupSum(recs, "groupName")

\* a guard that tests the record count only
AvgDividesNonEmpty(recs) == Len(recs) > 0

\* records.length > 0 && analytics.totalCollected > 0: the quotient is computed
AvgDivides(recs) == Len(recs) > 0 /\ totalCollected(recs) > 0

\* Avg. Buying Rate, in hundredths: (totalMMK / totalCollected).toFixed(2)
\* or '0.00'
AvgBuyingRate(recs) ==
  IF AvgDivides(recs) THEN (totalMMK(recs) * 100) \div totalCollected(recs) ELSE 0

\* the override is used whatever the category
categoryLabelResolutionAlways(record) ==
  IF "otherCategory" \in DOMAIN record /\ record["otherCategory"] # ""
  THEN record["otherCategory"] ELSE record["category"]

\* label of a record that has a category with an 'Other' variant and a
\* free-text override
categoryLabelResolution(record) ==
  IF /\ record["category"] = "Other"
     /\ "otherCategory" \in DOMAIN record
     /\ record["otherCategory"] # ""
  THEN record["otherCategory"] ELSE record["category"]

\* the trash button of a table row: setRecordToDelete(record)
setRecordToDelete(s, record) ==
  /\ DashVisible(s) /\ NoDialog(s)
  /\ quota[s].delete > 0
  /\ record \in Range(records[s])
  /\ recordToDelete' = [recordToDelete EXCEPT ![s] = record]
  /\ UNCHANGED <<storeVars, txs, quota, pageVars, formVars, toast>>

\* Cancel button or closing of the delete dialog: setRecordToDelete(null)
CancelDelete(s) ==
  /\ DashVisible(s) /\ ~IsNull(recordToDelete[s])
  /\ recordToDelete' = [recordToDelete EXCEPT ![s] = Null]
  /\ UNCHANGED <<storeVars, txs, quota, pageVars, formVars, toast>>

\* handleDelete up to its first await: the Delete button of the dialog is
\* enabled whenever the dialog is open
handleDelete(s) ==
  /\ DashVisible(s) /\ ~IsNull(recordToDelete[s])
  /\ \E t \in TxIds : IsFree(t)
  /\ quota[s].delete > 0
  /\ quota' = [quota EXCEPT ![s].delete = @ - 1]
  /\ txs' = [txs EXCEPT ![FreeTx] =
               [kind |-> "delete", owner |-> s, pc |-> "read", target |-> recordToDelete[s],
                data |-> EmptyObj, read |-> NoCounter, attempts |-> 0]]
  /\ UNCHANGED <<storeVars, pageVars, formVars, recordToDelete, toast>>

\* the rest of handleDelete after the transaction resolved / rejected
DeleteSucceeded(s) ==
  /\ toast' = [toast EXCEPT ![s] = "Record Deleted"]
  /\ recordToDelete' = [recordToDelete EXCEPT ![s] = Null]
  /\ UNCHANGED <<pageVars, formVars>>

\* a catch block that swallows the error
DeleteFailedSilent(s) ==
  /\ recordToDelete' = [recordToDelete EXCEPT ![s] = Null]
  /\ UNCHANGED <<pageVars, formVars, toast>>

DeleteFailed(s) ==
  /\ toast' = [toast EXCEPT ![s] = "Delete Failed"]
  /\ recordToDelete' = [recordToDelete EXCEPT ![s] = Null]
  /\ UNCHANGED <<pageVars, formVars>>

\* a read that does not test counterDoc.exists()
DeleteReadNoCheck(t) ==
  /\ txs[t].kind = "delete" /\ txs[t].pc = "read"
  /\ txs' = [txs EXCEPT ![t].read = counter, ![t].pc = "commit"]
  /\ UNCHANGED <<storeVars, quota, pageVars, formVars, recordToDelete, toast>>

\* transaction.get(counterRef); throws when the counter does not exist
DeleteRead(t) ==
  /\ txs[t].kind = "delete" /\ txs[t].pc = "read"
  /\ IF counter.exists
     THEN /\ txs' = [txs EXCEPT ![t].read = counter, ![t].pc = "commit"]
          /\ UNCHANGED <<pageVars, formVars, recordToDelete, toast>>
     ELSE /\ txs' = [txs EXCEPT ![t] = IdleTx]
          /\ DeleteFailed(txs[t].owner)
  /\ UNCHANGED <<storeVars, quota>>

\* the counter is decremented whatever the deleted record's displayId
DeleteWritesAlways(t) ==
  LET lastId == txs[t].read.lastId
      id     == txs[t].target.id
  IN  /\ expenses' = [i \in DOMAIN expenses \ {id} |-> expenses[i]]
      /\ counter' = [counter EXCEPT !.lastId = lastId - 1, !.ver = @ + 1]
      /\ UNCHANGED nextDoc

\* transaction.delete(expenseRef) and the conditional transaction.update
DeleteWrites(t) ==
  LET lastId == txs[t].read.lastId
      id     == txs[t].target.id
  IN  /\ expenses' = [i \in DOMAIN expenses \ {id} |-> expenses[i]]
      /\ counter' = IF txs[t].target["displayId"] = lastId
                    THEN [counter EXCEPT !.lastId = lastId - 1, !.ver = @ + 1]
                    ELSE counter
      /\ UNCHANGED nextDoc

DeleteCommit(t) ==
  /\ txs[t].kind = "delete" /\ txs[t].pc = "commit"
  /\ Unchanged(t)
  /\ DeleteWrites(t)
  /\ txs' = [txs EXCEPT ![t] = IdleTx]
  /\ DeleteSucceeded(txs[t].owner)
  /\ UNCHANGED quota

DeleteConflict(t) ==
  /\ txs[t].kind = "delete" /\ txs[t].pc = "commit"
  /\ ~Unchanged(t)
  /\ IF txs[t].attempts + 1 < MaxAttempts
     THEN /\ txs' = [txs EXCEPT ![t].pc = "read", ![t].attempts = @ + 1]
          /\ UNCHANGED <<pageVars, formVars, recordToDelete, toast>>
     ELSE /\ txs' = [txs EXCEPT ![t] = IdleTx]
          /\ DeleteFailed(txs[t].owner)
  /\ UNCHANGED <<storeVars, quota>>

\* ------------------------------------------------------- specifications
Tabs == {"form", "dashboard"}

\* the complete forms a user of the store scenarios fills in
FillChoices(s) ==
  IF IsNull(expenseToEdit[s]) THEN CreatePayloads ELSE EditPayloads(expenseToEdit[s])

PageNext ==
  \/ \E s \in Sessions : OnSnapshot(s)
  \/ \E s \in Sessions, tab \in Tabs : SetActiveTab(s, tab)

ErrorNext ==
  \E s \in Sessions : OnSnapshotError(s)

\* the inputs of the form are filled in one burst
FillNext ==
  \E s \in Sessions : \E data \in FillChoices(s) : onChange(s, InputsOf(data))

\* the inputs of the form are changed one by one
EditNext ==
  \/ \E s \in Sessions, k \in InputFields :
       \E v \in InputChoices(k) : onChange(s, [x \in {k} |-> v])
  \/ \E s \in Sessions : handleClearForm(s)

\* review of the form before it is submitted
ReviewNext ==
  \/ \E s \in Sessions : handleReviewSubmit(s)
  \/ \E s \in Sessions : onShowErrorAlertChange(s)
  \/ \E s \in Sessions : handleCancelReview(s)

\* a create transaction that commits at once
CreateTxNext ==
  \/ \E s \in Sessions : SubmitCreate(s, form[s])
  \/ \E t \in TxIds : CreateRead(t)
  \/ \E t \in TxIds : CreateCommit(t)

CreateNext ==
  \/ ReviewNext
  \/ CreateTxNext
  \/ \E t \in TxIds : CreateConflict(t)

UpdateNext ==
  \/ \E s \in Sessions : \E r \in Range(records[s]) : handleEdit(s, r)
  \/ \E s \in Sessions : SubmitUpdate(s, form[s])
  \/ \E t \in TxIds : UpdateCommit(t)

DeleteNext ==
  \/ \E s \in Sessions : \E r \in Range(records[s]) : setRecordToDelete(s, r)
  \/ \E s \in Sessions : CancelDelete(s)
  \/ \E s \in Sessions : handleDelete(s)
  \/ \E t \in TxIds : DeleteRead(t)
  \/ \E t \in TxIds : DeleteCommit(t)
  \/ \E t \in TxIds : DeleteConflict(t)

Next == PageNext \/ FillNext \/ CreateNext \/ UpdateNext \/ DeleteNext

\* creations and deletions only
NextStale == PageNext \/ FillNext \/ CreateNext \/ DeleteNext

\* creations only
NextCreate == PageNext \/ FillNext \/ CreateNext

\* one session working on its form, field by field
NextForm == PageNext \/ EditNext \/ ReviewNext \/ CreateTxNext \/ UpdateNext

\* the dashboard over a store that does not change
NextDash == PageNext

\* creations while the subscription fails and recovers
NextError == PageNext \/ ErrorNext \/ FillNext \/ CreateNext

\* one session creating and updating several times
NextHighlight == PageNext \/ FillNext \/ ReviewNext \/ CreateTxNext \/ UpdateNext

Spec == Init /\ [][Next]_vars

\* sessions whose cached snapshots go stale between creations and deletions
SpecStale == InitStale /\ [][NextStale]_vars

\* concurrent creations against a store with no counter document
SpecCreate == InitCreate /\ [][NextCreate]_vars

\* deletions against a store whose counter document is missing
SpecNoCounter == InitNoCounter /\ [][NextStale]_vars

\* the form: edits, validation, creation and update of one record
SpecForm == InitForm /\ [][NextForm]_vars

\* the dashboard's analytics over the stores of InitDash
SpecDash == InitDash /\ [][NextDash]_vars

\* subscription errors
SpecError == InitError /\ [][NextError]_vars

\* successive saves of one session
SpecHighlight == InitHighlight /\ [][NextHighlight]_vars

\* several sessions editing the same record
SpecShared == InitShared /\ [][NextHighlight]_vars

\* the dashboard over records with MMK amounts
SpecMmk == InitMmk /\ [][NextDash]_vars

\* images of the form: selections, encodings, removals, Clear
UploadNext ==
  \/ \E s \in Sessions, n \in 1..MaxSelection : selectFiles(s, n)
  \/ \E s \in Sessions : \E sel \in encoding[s] : filesEncoded(s, sel)
  \/ \E s \in Sessions : \E index \in DOMAIN uploadedFiles[s] : handleRemoveImage(s, index)
  \/ \E s \in Sessions : handleClearForm(s)

NextUpload == PageNext \/ UploadNext

SpecUpload == InitUpload /\ [][NextUpload]_vars

\* the next step of the store call of slot t: the awaited promise of
\* runTransaction / updateDoc settles
StoreStep(t) ==
  \/ CreateRead(t) \/ CreateCommit(t) \/ CreateConflict(t)
  \/ UpdateCommit(t)
  \/ DeleteRead(t) \/ DeleteCommit(t) \/ DeleteConflict(t)

\* every store call that was started is eventually carried on by the store
SpecLive ==
  /\ InitLive /\ [][Next]_vars
  /\ \A t \in TxIds : WF_vars(StoreStep(t))

\* ================================================================ claims
DocIds      == DOMAIN expenses
DisplayIds  == {expenses[i]["displayId"] : i \in DocIds}
LastIdOr0   == IF counter.exists THEN counter.lastId ELSE 0
Busy(s)     == {t \in TxIds : txs[t].kind # "idle" /\ txs[t].owner = s}

\* the step in which the call of slot t resolves with the given notification
Resolves(t, kind, title) ==
  /\ txs[t].kind = kind
  /\ txs'[t] = IdleTx
  /\ toast'[txs[t].owner] = title

\* no document other than `id` is added, removed or changed
OthersKept(id) ==
  /\ DocIds' \ {id} = DocIds \ {id}
  /\ \A i \in DocIds \ {id} : expenses'[i] = expenses[i]

\* C1: N concurrent creations against a store with no counter document: once
\* all of them have committed, the displayIds of the created records are
\* exactly 1..N (none twice, none skipped).
C1_CreatesAssignOneToN ==
  InFlight("create") = {} =>
    /\ Cardinality(DocIds) = nextDoc - 1
    /\ DisplayIds = 1..(nextDoc - 1)

C1_Witness ==
  /\ InFlight("create") = {}
  /\ nextDoc - 1 = NumSessions * CreateRuns
  /\ \A s \in Sessions : quota[s].create = 0

\* C2: no two expense documents that exist in the store at the same time
\* have the same displayId.
C2_UniqueDisplayIds ==
  \A i, j \in DocIds : i # j => expenses[i]["displayId"] # expenses[j]["displayId"]

\* C3: a committed deletion of a record whose displayId equals the counter's
\* current lastId sets the counter to lastId - 1, any other committed deletion
\* leaves the counter as it is; the targeted document is removed and no other
\* document changes.
C3_DeleteReclaimsTail ==
  [][\A t \in TxIds : Resolves(t, "delete", "Record Deleted") =>
        LET r == txs[t].target
        IN  /\ counter'.exists = counter.exists
            /\ counter'.lastId = IF r["displayId"] = counter.lastId
                                 THEN counter.lastId - 1 ELSE counter.lastId
            /\ r.id \notin DocIds'
            /\ OthersKept(r.id)]_vars

\* an interior record (displayId 1) was deleted while displayId 2 is the tail
C3_Witness ==
  /\ \E s \in Sessions : toast[s] = "Record Deleted"
  /\ counter.exists /\ counter.lastId = 2
  /\ DisplayIds = {2}

\* C4: a creation is all-or-nothing: every step of a create call either
\* leaves the records and the counter as they are, or adds exactly one record
\* and sets the counter to that record's displayId; a call that fails has
\* written nothing, and the counter exists exactly when a record was written.
C4_CreateAllOrNothing ==
  [][/\ \A t \in TxIds : (txs[t].kind = "create" /\ txs'[t] # txs[t]) =>
          \/ /\ expenses' = expenses
             /\ counter' = counter
             /\ ~Resolves(t, "create", "Record Saved!")
          \/ /\ Resolves(t, "create", "Record Saved!")
             /\ \E id \in DocIds' \ DocIds :
                  /\ OthersKept(id)
                  /\ counter'.exists
                  /\ counter'.lastId = expenses'[id]["displayId"]
     /\ counter'.exists = (nextDoc' > 1)]_vars

\* a creation was rejected after the store's retries
C4_Witness ==
  \E s \in Sessions :
    /\ toast[s] = "Save Failed"
    /\ IsNull(expenseToEdit[s])
    /\ Busy(s) = {}

\* C5: every committed creation raises the counter by exactly 1 (a missing
\* counter counting as 0, so the first one creates it with value 1) and stores
\* the record with displayId equal to the new counter value, whatever
\* displayId the form payload carried.
C5_CreateIncrementsCounter ==
  [][\A t \in TxIds : Resolves(t, "create", "Record Saved!") =>
        /\ counter'.exists
        /\ counter'.lastId = LastIdOr0 + 1
        /\ \E id \in DocIds' \ DocIds : expenses'[id]["displayId"] = counter'.lastId]_vars

\* the counter was created and then raised
C5_Witness ==
  /\ counter.exists /\ counter.lastId = 2
  /\ DisplayIds = {1, 2}

\* C6: deleting an interior record leaves every other record's displayId as
\* it was, and every record created receives a displayId greater than the
\* displayId of every record that exists when it is created.
C6_NewIdAboveExisting ==
  [][/\ \A t \in TxIds : Resolves(t, "delete", "Record Deleted") =>
          \A i \in DocIds' : expenses'[i]["displayId"] = expenses[i]["displayId"]
     /\ \A t \in TxIds : Resolves(t, "create", "Record Saved!") =>
          \A id \in DocIds' \ DocIds : \A i \in DocIds :
             expenses'[id]["displayId"] > expenses[i]["displayId"]]_vars

\* C7: a deletion that finds no counter document fails before any write: no
\* record is deleted, no counter is created, 'Delete Failed' is notified.
C7_DeleteWithoutCounterFails ==
  [][\A t \in TxIds :
       (txs[t].kind = "delete" /\ txs[t].pc = "read" /\ ~counter.exists
        /\ txs'[t] # txs[t]) =>
          /\ expenses' = expenses
          /\ counter' = counter
          /\ txs'[t] = IdleTx
          /\ toast'[txs[t].owner] = "Delete Failed"
          /\ IsNull(recordToDelete'[txs[t].owner])]_vars

C7_Witness ==
  /\ ~counter.exists
  /\ 1 \in DocIds
  /\ \E s \in Sessions : toast[s] = "Delete Failed" /\ quota[s].delete < PeerDeletes

C9_OneCallInFlight ==
  \A s \in Sessions : Cardinality(Busy(s)) <= 1

\* C10: round trip: the snapshot of the store taken when a creation has
\* committed contains a record with every defined field of the payload
\* unchanged, the assigned displayId and no other field but the document id;
\* a delivered snapshot is the store's snapshot.
C10_CreateRoundTrip ==
  [][/\ \A t \in TxIds : Resolves(t, "create", "Record Saved!") =>
          LET p    == txs[t].data
              snap == Snapshot(expenses')
          IN  \E n \in DOMAIN snap :
                /\ snap[n].id \in DocIds' \ DocIds
                /\ snap[n]["displayId"] = counter'.lastId
                /\ DOMAIN snap[n] = DOMAIN p \cup {"id", "displayId"}
                /\ \A k \in DOMAIN p \ {"displayId"} : snap[n][k] = p[k]
     /\ \A s \in Sessions : records'[s] # records[s] => records'[s] = Snapshot(expenses)]_vars

\* a session has received the snapshot that holds the created records
C10_Witness ==
  \E s \in Sessions :
    /\ toast[s] = "Record Saved!"
    /\ Len(records[s]) > 0
    /\ records[s] = Snapshot(expenses)
    /\ \E n \in DOMAIN records[s] : records[s][n]["date"] = FormDate

\* the step in which session s receives a snapshot
Notified(s) ==
  \/ records'[s] # records[s]
  \/ loading[s] /\ ~loading'[s] /\ error'[s] = NoError

\* C11: after every store notification the session's record collection is
\* exactly the store's current set of records (one per document, every field
\* as stored, the date converted), ascending by displayId; only a
\* notification changes the collection.
C11_RecordsAreSnapshot ==
  [][\A s \in Sessions :
       /\ Notified(s) =>
            LET recs == records'[s]
            IN  /\ Len(recs) = Cardinality(DocIds)
                /\ {recs[n].id : n \in DOMAIN recs} = DocIds
                /\ \A n \in DOMAIN recs :
                     LET d == expenses[recs[n].id]
                     IN  /\ DOMAIN recs[n] = DOMAIN d \cup {"id"}
                         /\ recs[n]["date"] = d["date"].seconds * 1000 + d["date"].nanoseconds \div 1000000
                         /\ \A k \in DOMAIN d \ {"date"} : recs[n][k] = d[k]
                /\ \A m, n \in DOMAIN recs :
                     m < n => recs[m]["displayId"] <= recs[n]["displayId"]
       /\ records'[s] # records[s] =>
            /\ UNCHANGED <<storeVars, txs, quota, expenseToEdit, activeTab,
                           highlightedRecordId, formVars, recordToDelete, toast>>
            /\ \A o \in Sessions \ {s} : records'[o] = records[o]]_vars

\* a session holds two records after its own save
C11_Witness ==
  \E s \in Sessions :
    /\ Len(records[s]) = 2
    /\ records[s][1]["displayId"] < records[s][2]["displayId"]
    /\ toast[s] = "Record Saved!"

\* value of a numeric field of a stored document, absent counting as 0
Val(d, k) == IF k \in DOMAIN d THEN d[k] ELSE 0

DerivedHold(d) ==
  /\ Val(d, "rmTotalAmount") = Val(d, "collectedAmount") + Val(d, "rmServiceFee")
  /\ Val(d, "totalMmkTransferAmount") = Val(d, "collectedAmount") * Val(d, "buyingRate")
  /\ Val(d, "mmkTotalAmount") = Val(d, "totalMmkTransferAmount") + Val(d, "mmkServiceFee")

Amount(r) == IF "collectedAmount" \in DOMAIN r THEN r["collectedAmount"] ELSE 0

RECURSIVE SumOver(_, _)
SumOver(recs, idx) ==
  IF idx = {} THEN 0
  ELSE LET n == CHOOSE i \in idx : TRUE
       IN  Amount(recs[n]) + SumOver(recs, idx \ {n})

HasKey(r, f) == f \in DOMAIN r /\ r[f] # ""
KeyFields == {"bankType", "groupName"}
FirstIndex(recs, f, name) ==
  CHOOSE n \in DOMAIN recs :
    /\ recs[n][f] = name
    /\ \A m \in DOMAIN recs : (HasKey(recs[m], f) /\ recs[m][f] = name) => n <= m

\* C13: over records that all carry the key field, groupSum returns one
\* entry per distinct category, in the order of the categories' first
\* occurrence in the input, each with the sum of collectedAmount over the
\* records of that category.
C13_GroupSumFirstSeenOrder ==
  \A s \in Sessions : \A f \in KeyFields :
    LET recs == records[s]
        g    == groupSum(recs, f)
    IN  (\A n \in DOMAIN recs : HasKey(recs[n], f)) =>
          /\ {g[p].name : p \in DOMAIN g} = {recs[n][f] : n \in DOMAIN recs}
          /\ \A p, q \in DOMAIN g : p # q => g[p].name # g[q].name
          /\ \A p, q \in DOMAIN g :
               p < q => FirstIndex(recs, f, g[p].name) < FirstIndex(recs, f, g[q].name)
          /\ \A p \in DOMAIN g :
               g[p].total = SumOver(recs, {n \in DOMAIN recs : recs[n][f] = g[p].name})

\* records A:10, B:3, A:3 give A:13, B:3
C13_Witness ==
  \E s \in Sessions :
    /\ Len(records[s]) = 3
    /\ expensesByCategory(records[s]) =
         <<[name |-> "A", total |-> 13], [name |-> "B", total |-> 3]>>

\* C14: the average is 0 for the empty record collection, and whenever the
\* quotient is computed its divisor (totalCollected) is not 0, also for a
\* non-empty collection whose amounts sum to 0.
C14_AverageNeverDividesByZero ==
  \A s \in Sessions :
    /\ AvgDivides(records[s]) => SumOver(records[s], DOMAIN records[s]) # 0
    /\ records[s] = << >> => AvgBuyingRate(records[s]) = 0

\* a loaded, non-empty collection whose divisor is 0
C14_Witness ==
  \E s \in Sessions :
    /\ ~loading[s]
    /\ Len(records[s]) > 0
    /\ SumOver(records[s], DOMAIN records[s]) = 0

\* C15: totalCollected is the sum of collectedAmount over all records, a
\* record without the field counting as 0; it is 0 for the empty collection.
C15_TotalCountsAbsentAsZero ==
  \A s \in Sessions :
    /\ totalCollected(records[s]) = SumOver(records[s], DOMAIN records[s])
    /\ records[s] = << >> => totalCollected(records[s]) = 0

\* a record without an amount next to records with one
C15_Witness ==
  \E s \in Sessions :
    /\ \E n \in DOMAIN records[s] : "collectedAmount" \notin DOMAIN records[s][n]
    /\ totalCollected(records[s]) = 13

\* C16: in groupSum the records whose key field is absent or empty are
\* counted under the category 'N/A': there is exactly one such entry, its
\* total is the sum over those records, and no entry is named by an empty or
\* missing key.
C16_MissingKeyIsNA ==
  \A s \in Sessions : \A f \in KeyFields :
    LET recs    == records[s]
        g       == groupSum(recs, f)
        missing == {n \in DOMAIN recs : ~HasKey(recs[n], f)}
        na      == {p \in DOMAIN g : g[p].name = "N/A"}
    IN  /\ missing # {} =>
             /\ Cardinality(na) = 1
             /\ \A p \in na : g[p].total = SumOver(recs, missing)
        /\ missing = {} => na = {}
        /\ Len(g) = Cardinality({recs[n][f] : n \in DOMAIN recs \ missing})
                    + (IF missing # {} THEN 1 ELSE 0)

\* a record without bankType and a record with an empty bankType share N/A
C16_Witness ==
  \E s \in Sessions :
    /\ \E n \in DOMAIN records[s] : "bankType" \notin DOMAIN records[s][n]
    /\ \E n \in DOMAIN records[s] :
         "bankType" \in DOMAIN records[s][n] /\ records[s][n]["bankType"] = ""
    /\ \E p \in DOMAIN expensesByCategory(records[s]) :
         expensesByCategory(records[s])[p] = [name |-> "N/A", total |-> 13]

\* the cached records that carry a category
Categorised(s) ==
  {n \in DOMAIN records[s] : "category" \in DOMAIN records[s][n]}

\* C17: label resolution: category 'Other' with a non-empty override gives
\* the override, 'Other' with an empty or missing override gives 'Other',
\* any other category gives the category whatever the override.
C17_CategoryLabel ==
  \A s \in Sessions : \A n \in Categorised(s) :
    LET r        == records[s][n]
        override == IF "otherCategory" \in DOMAIN r THEN r["otherCategory"] ELSE ""
        label    == categoryLabelResolution(r)
    IN  /\ (r["category"] = "Other" /\ override # "") => label = override
        /\ (r["category"] = "Other" /\ override = "") => label = "Other"
        /\ r["category"] # "Other" => label = r["category"]

\* a record of category Food that carries an override
C17_Witness ==
  \E s \in Sessions : \E n \in Categorised(s) :
    /\ records[s][n]["category"] = "Food"
    /\ "otherCategory" \in DOMAIN records[s][n]
    /\ records[s][n]["otherCategory"] = "Software"

\* a store call of session s starts in this step
Starts(s) ==
  \E t \in TxIds : txs[t].kind = "idle" /\ txs'[t].kind # "idle" /\ txs'[t].owner = s

\* C18: while the form's values fail the schema no store call of the session
\* starts and its review dialog does not open; a review request on such a form
\* opens the validation alert and changes neither records nor counter.
C18_InvalidFormNeverSubmits ==
  [][\A s \in Sessions :
       /\ ~IsValid(form[s]) => ~Starts(s) /\ (isReviewing'[s] => isReviewing[s])
       /\ (showErrorAlert'[s] /\ ~showErrorAlert[s]) =>
            /\ ~IsValid(form[s])
            /\ ~isReviewing'[s]
            /\ UNCHANGED <<storeVars, txs>>
       /\ Starts(s) => IsValid(form[s]) /\ isReviewing[s]]_vars

\* the alert is open on a form whose amount is negative
C18_Witness ==
  \E s \in Sessions :
    /\ showErrorAlert[s]
    /\ form[s]["groupName"] # "" /\ form[s]["bankType"] # ""
    /\ form[s]["collectedAmount"] < 0 /\ form[s]["collectedAmount"] # Undefined
    /\ form[s]["buyingRate"] # Undefined

\* the store call of slot t ends in this step with a failure: an update of a
\* missing document, a deletion that finds no counter, or a transaction
\* whose last attempt is refused
Fails(t) ==
  /\ txs[t].kind # "idle" /\ txs'[t] = IdleTx
  /\ \/ txs[t].kind = "update" /\ txs[t].target.id \notin DocIds
     \/ txs[t].kind = "delete" /\ txs[t].pc = "read"
     \/ txs[t].kind \in {"create", "delete"} /\ txs[t].pc = "commit"
        /\ txs[t].read.ver # counter.ver

\* C19: a failing create, update or delete call ends with the destructive
\* notification ('Save Failed' / 'Delete Failed'), not with a success
\* notification, without calling onSaveSuccess, and clears the in-flight
\* state (isSubmitting and isReviewing, resp. recordToDelete).
C19_FailureIsNotified ==
  [][\A t \in TxIds : Fails(t) =>
       LET s == txs[t].owner
       IN  IF txs[t].kind = "delete"
           THEN /\ toast'[s] = "Delete Failed"
                /\ IsNull(recordToDelete'[s])
           ELSE /\ toast'[s] = "Save Failed"
                /\ ~isSubmitting'[s] /\ ~isReviewing'[s]
                /\ expenseToEdit'[s] = expenseToEdit[s]
                /\ activeTab'[s] = activeTab[s]
                /\ highlightedRecordId'[s] = highlightedRecordId[s]]_vars

\* an update of a record that another session deleted has failed
C19_Witness ==
  \E s \in Sessions :
    /\ toast[s] = "Save Failed"
    /\ ~IsNull(expenseToEdit[s])
    /\ expenseToEdit[s].id \notin DocIds
    /\ ~isSubmitting[s] /\ ~isReviewing[s]
    /\ quota[s].update = 0

\* C20: a subscription error puts the page in the error state: loading is
\* false and the error message is shown instead of the tabs; the page leaves
\* that state only by a successful snapshot, which clears the error and shows
\* the tabs again.
C20_ErrorStateUntilSnapshot ==
  [][\A s \in Sessions :
       /\ (error[s] = NoError /\ error'[s] # NoError) =>
            /\ ~loading'[s]
            /\ records'[s] = records[s]
       /\ error'[s] # NoError => ~loading'[s]
       /\ (error[s] # NoError /\ error'[s] = NoError) =>
            /\ records'[s] = Snapshot(expenses)
            /\ ~loading'[s]]_vars

\* a session that had loaded records is in the error state
C20_Witness ==
  \E s \in Sessions :
    /\ ShowsError(s)
    /\ ~UiReady(s)
    /\ Len(records[s]) > 0

\* C22: whenever the counter document exists, lastId is at least the
\* displayId of every document in the store, and lastId >= 0.
C22_CounterBoundsDisplayIds ==
  counter.exists =>
    /\ counter.lastId >= 0
    /\ \A i \in DocIds : expenses[i]["displayId"] <= counter.lastId

\* the save of slot t ends in this step with the success notification
Saved(t) ==
  Resolves(t, "create", "Record Saved!") \/ Resolves(t, "update", "Record Saved!")

\* C25: a successful save leaves the form with defaultFormValues and no
\* images; a failed
\* save leaves the form with exactly the values that were submitted.
C25_FormAfterSave ==
  [][\A t \in TxIds :
       LET s == txs[t].owner
       IN  /\ Saved(t) => form'[s] = defaultFormValues /\ uploadedFiles'[s] = << >>
           /\ (Fails(t) /\ txs[t].kind \in {"create", "update"}) =>
                 /\ form'[s] = form[s]
                 /\ removeUndefinedProps(form'[s]) = txs[t].data]_vars

\* an update has failed and the form still holds the values of the record
C25_Witness ==
  \E s \in Sessions :
    /\ toast[s] = "Save Failed"
    /\ ~IsNull(expenseToEdit[s])
    /\ ~isSubmitting[s]
    /\ quota[s].update = 0
    /\ IsValid(form[s])
    /\ form[s]["displayId"] = expenseToEdit[s]["displayId"]

\* C26: expenseToEdit and highlightedRecordId are never both set: an edit
\* sets expenseToEdit, clears the highlight and shows the form tab; a
\* successful save clears expenseToEdit and shows the dashboard tab.
C26_EditAndHighlightExclusive ==
  [][\A s \in Sessions :
       /\ ~(~IsNull(expenseToEdit'[s]) /\ highlightedRecordId'[s] # NoId)
       /\ (expenseToEdit'[s] # expenseToEdit[s] /\ ~IsNull(expenseToEdit'[s])) =>
             /\ highlightedRecordId'[s] = NoId
             /\ activeTab'[s] = "form"
       /\ (\E t \in TxIds : txs[t].owner = s /\ Saved(t)) =>
             /\ IsNull(expenseToEdit'[s])
             /\ activeTab'[s] = "dashboard"]_vars

\* the record that was highlighted by the last save is being edited
C26_Witness ==
  \E s \in Sessions :
    /\ ~IsNull(expenseToEdit[s])
    /\ Val(expenseToEdit[s], "mmkServiceFee") > 0
    /\ toast[s] = "Record Saved!"
    /\ quota[s].create = HighlightCreates - 1
    /\ quota[s].update = HighlightUpdates - 1

RECURSIVE SumTotals(_, _)
SumTotals(g, idx) ==
  IF idx = {} THEN 0
  ELSE LET p == CHOOSE i \in idx : TRUE
       IN  g[p].total + SumTotals(g, idx \ {p})

\* C23: for every record collection the totals of the by-bank grouping and
\* the totals of the by-group grouping add up to the same sum, which is
\* totalCollected of the current collection.
C23_GroupingsAddUpToTotal ==
  \A s \in Sessions :
    LET byBank  == expensesByCategory(records[s])
        byGroup == expensesByGroup(records[s])
    IN  /\ SumTotals(byBank, DOMAIN byBank) = totalCollected(records[s])
        /\ SumTotals(byGroup, DOMAIN byGroup) = totalCollected(records[s])
        /\ SumTotals(byBank, DOMAIN byBank) = SumTotals(byGroup, DOMAIN byGroup)

\* the two groupings split a collection differently, a record lacking a key
C23_Witness ==
  \E s \in Sessions :
    /\ Len(expensesByCategory(records[s])) = 3
    /\ Len(expensesByGroup(records[s])) = 2
    /\ \E n \in DOMAIN records[s] : "bankType" \notin DOMAIN records[s][n]
    /\ totalCollected(records[s]) = 23

\* the amount a record contributes to totalMMK
MmkShare(r) ==
  IF "mmkTotalAmount" \in DOMAIN r /\ r["mmkTotalAmount"] # 0
  THEN r["mmkTotalAmount"]
  ELSE IF "totalMmkTransferAmount" \in DOMAIN r /\ r["totalMmkTransferAmount"] # 0
       THEN r["totalMmkTransferAmount"]
       ELSE 0

RECURSIVE SumShares(_, _)
SumShares(recs, idx) ==
  IF idx = {} THEN 0
  ELSE LET n == CHOOSE i \in idx : TRUE
       IN  MmkShare(recs[n]) + SumShares(recs, idx \ {n})

\* C28: totalMMK is the sum over the records of mmkTotalAmount when it is
\* present and not 0, otherwise of totalMmkTransferAmount when it is present
\* and not 0, otherwise of 0; a record never contributes both amounts.
C28_TotalMmkPrefersTotalWithFee ==
  \A s \in Sessions :
    totalMMK(records[s]) = SumShares(records[s], DOMAIN records[s])

\* a record with both amounts set next to one whose mmkTotalAmount is 0
C28_Witness ==
  \E s \in Sessions :
    /\ \E n \in DOMAIN records[s] :
         /\ "mmkTotalAmount" \in DOMAIN records[s][n]
         /\ "totalMmkTransferAmount" \in DOMAIN records[s][n]
         /\ records[s][n]["mmkTotalAmount"] = 40
         /\ records[s][n]["totalMmkTransferAmount"] = 30
    /\ \E n \in DOMAIN records[s] :
         /\ "mmkTotalAmount" \in DOMAIN records[s][n]
         /\ "totalMmkTransferAmount" \in DOMAIN records[s][n]
         /\ records[s][n]["mmkTotalAmount"] = 0
         /\ records[s][n]["totalMmkTransferAmount"] = 30
    /\ totalMMK(records[s]) = 70

\* the store calls of a kind that session s has in flight
Pending(s, kinds) ==
  {t \in TxIds : txs[t].kind \in kinds /\ txs[t].owner = s}

\* C21: every create, update or delete that was started ends, and ends with
\* the success or the error notification of its kind; a session that is
\* submitting eventually is not, and a session with a deletion in flight
\* eventually has none and no record to delete. A transaction that is
\* refused again and again is committed or rejected.
C21_CallsEndNotified ==
  /\ [][\A t \in TxIds : (txs[t].kind # "idle" /\ txs'[t] = IdleTx) =>
          toast'[txs[t].owner] \in
            (IF txs[t].kind = "delete" THEN {"Record Deleted", "Delete Failed"}
             ELSE {"Record Saved!", "Save Failed"})]_vars
  /\ \A t \in TxIds : (txs[t].kind # "idle") ~> (txs[t].kind = "idle")
  /\ \A s \in Sessions : isSubmitting[s] ~> ~isSubmitting[s]
  /\ \A s \in Sessions :
       (Pending(s, {"delete"}) # {}) ~>
         (Pending(s, {"delete"}) = {} /\ IsNull(recordToDelete[s]))

\* a transaction whose first attempt was refused runs again
C21_Witness ==
  \E t \in TxIds :
    /\ txs[t].kind \in {"create", "delete"}
    /\ txs[t].attempts > 0
    /\ txs[t].pc = "commit"

\* the images of session s: those in the form's list and those being encoded
Encoding(s) == UNION {Range(sel.files) : sel \in encoding[s]}
Known(s)    == Range(uploadedFiles[s]) \cup Encoding(s)

\* C24: images are not lost, duplicated or reordered by concurrent uploads
\* and removals: a selection that finishes encoding is appended as a whole
\* to the list as it then is, whatever finished or was removed meanwhile; a
\* new selection leaves the list alone; removing the image at an index
\* takes out that element only and keeps the order of the others and the
\* encodings; no image is in the list twice or both listed and encoding.
C24_UploadsKeptInOrder ==
  [][\A s \in Sessions :
       /\ (activeTab'[s] = activeTab[s] /\ encoding'[s] # encoding[s]
            /\ quota'[s] = quota[s]) =>
             \E sel \in encoding[s] :
               /\ encoding'[s] = encoding[s] \ {sel}
               /\ uploadedFiles'[s] = uploadedFiles[s] \o sel.files
       /\ quota'[s].upload < quota[s].upload =>
             /\ uploadedFiles'[s] = uploadedFiles[s]
             /\ encoding[s] \subseteq encoding'[s]
             /\ Known(s) \subseteq Known(s)'
       /\ (activeTab'[s] = activeTab[s] /\ uploadedFiles'[s] # << >>
            /\ Len(uploadedFiles'[s]) < Len(uploadedFiles[s])) =>
             /\ encoding'[s] = encoding[s]
             /\ \E index \in DOMAIN uploadedFiles[s] :
                  /\ Len(uploadedFiles'[s]) = Len(uploadedFiles[s]) - 1
                  /\ \A i \in DOMAIN uploadedFiles'[s] :
                       uploadedFiles'[s][i] =
                         uploadedFiles[s][IF i < index THEN i ELSE i + 1]
       /\ \A i, j \in DOMAIN uploadedFiles'[s] :
             i # j => uploadedFiles'[s][i] # uploadedFiles'[s][j]
       /\ Range(uploadedFiles'[s]) \cap Encoding(s)' = {}]_vars

\* an image was removed while a later selection is still being encoded
C24_Witness ==
  \E s \in Sessions : \E sel \in encoding[s] :
    /\ Len(sel.seen) = 2
    /\ Len(uploadedFiles[s]) = 1
    /\ uploadedFiles[s][1] = sel.seen[1]

====
